---- MODULE Spec2Model ----
(***************************************************************************)
(* Model of the group-gifting server (src/server.js): the group document  *)
(* Validator and Sanitizer, the public group endpoints (GET, POST, DELETE *)
(* /api/groups/:groupId) over the PostgreSQL table "groups", the admin     *)
(* endpoints that touch that table, and the retention sweep.               *)
(*                                                                         *)
(* JavaScript values are records tagged t, with the payload in a field of  *)
(* their own per type.  A string is a sequence of one-character strings.   *)
(* An object with a fixed schema (document, member, item) carries a        *)
(* record; the "users"                                                     *)
(* object, whose keys are free text and whose key order Object.keys()      *)
(* exposes, carries the sequence of its [k, v] entries in insertion order. *)
(***************************************************************************)
EXTENDS Integers, Sequences, FiniteSets, TLC

VARIABLES
    store,      \* table groups: group_id -> NoRow or [data, updated_at]
    contacts,   \* table contact_submissions: the rows [status, admin_notes], by id
    now,        \* CURRENT_TIMESTAMP / Date.now(), in clock ticks (Hour of them an hour)
    pc,         \* per client: position of its request handler
    req,        \* per client: the request being handled
    creationHits,   \* groupCreationLimiter: requests counted in the current window
    sweepPending,   \* the cleanupOldGroups() call made at startup has not run yet
    adminPassword,  \* process.env.ADMIN_PASSWORD
    adminSessions,  \* Map: session token -> [createdAt, expiresAt]
    nextToken,      \* the number of tokens crypto.randomBytes has produced
    last,       \* what the latest step sent: a response, or a marker
    vin,        \* Validator/Sanitizer study: the untyped input document
    vres        \* Validator/Sanitizer study: what the functions returned

vars == <<store, contacts, now, pc, req, creationHits, sweepPending, adminPassword, adminSessions,
          nextToken, last, vin, vres>>

db == <<store, contacts>>
limiter == <<creationHits>>
handlers == <<pc, req>>
admin == <<adminPassword, adminSessions, nextToken>>
study == <<vin, vres>>

-----------------------------------------------------------------------------
(* JavaScript values *)

Undef == [t |-> "undefined"]
Null == [t |-> "null"]
Bool(b) == [t |-> "boolean", b |-> b]
Num(n) == [t |-> "number", n |-> n]
Str(s) == [t |-> "string", s |-> s]
Arr(a) == [t |-> "array", a |-> a]
Obj(r) == [t |-> "object", o |-> r]
Map(m) == [t |-> "map", m |-> m]

EmptyStr == Str(<<>>)

\* !x is false
Truthy(x) ==
    CASE x.t \in {"undefined", "null"} -> FALSE
      [] x.t = "boolean" -> x.b
      [] x.t = "number" -> x.n # 0
      [] x.t = "string" -> Len(x.s) > 0
      [] OTHER -> TRUE

\* typeof x === 'object'
TypeofObject(x) == x.t \in {"object", "map", "array", "null"}

\* Reading a property of x throws a TypeError
PropThrows(x) == x.t \in {"undefined", "null"}

\* x.k for a fixed property name k, where x is neither null nor undefined
Prop(x, k) ==
    IF x.t = "object" /\ k \in DOMAIN x.o THEN x.o[k] ELSE Undef

\* a || b
Or(a, b) == IF Truthy(a) THEN a ELSE b

Min(a, b) == IF a < b THEN a ELSE b

Rep(c, n) == [i \in 1..n |-> c]

-----------------------------------------------------------------------------
(* sanitizeString *)

Whitespace == {" ", "\t", "\n"}
Dangerous == {"<", ">", "\"", "'"}

\* str.replace(/<[^>]*>/g, ''): a match runs from a '<' to the first '>' after
\* it, and the scan resumes after that '>'.  Position k is inside a match iff
\* some '<' at i <= k has no '>' in i..k-1 and some '>' lies at or after k.
StripTags(s) ==
    LET n == Len(s)
        lts == {i \in 1..n : s[i] = "<"}
        gts == {i \in 1..n : s[i] = ">"}
        InTag(k) == \E i \in lts :
                        /\ i <= k
                        /\ \A x \in gts : ~(i <= x /\ x < k)
                        /\ \E q \in gts : q >= k
        marked == [k \in 1..n |-> IF InTag(k) THEN "" ELSE s[k]]
    IN  IF lts = {} \/ gts = {} THEN s
        ELSE SelectSeq(marked, LAMBDA c : c # "")

\* str.replace(/[<>\"\']/g, '')
StripDangerous(s) == SelectSeq(s, LAMBDA c : c \notin Dangerous)

\* str.trim()
Trim(s) ==
    LET n == Len(s)
        inner == {k \in 1..n : s[k] \notin Whitespace}
    IN  IF inner = {} THEN <<>>
        ELSE LET first == CHOOSE k \in inner : \A j \in 1..(k - 1) : s[j] \in Whitespace
                 lastk == CHOOSE k \in inner : \A j \in (k + 1)..n : s[j] \in Whitespace
             IN  SubSeq(s, first, lastk)

SubstringAll(s, maxLength) == s

\* str.substring(0, maxLength)
Substring0(s, maxLength) == SubSeq(s, 1, Min(maxLength, Len(s)))

\* sanitizeString(str, maxLength) on a JavaScript value; returns a string value
sanitizeString(x, maxLength) ==
    IF x.t # "string" THEN EmptyStr
    ELSE Str(Substring0(Trim(StripDangerous(StripTags(x.s))), maxLength))

-----------------------------------------------------------------------------
(* validator.isISO8601, for the calendar dates YYYY, YYYY-MM, YYYY-MM-DD    *)
(* (the input documents carry no week, ordinal, basic-format or time forms) *)

Digit == {"0", "1", "2", "3", "4", "5", "6", "7", "8", "9"}

IsMonth(a, b) == (a = "0" /\ b \in Digit \ {"0"}) \/ (a = "1" /\ b \in {"0", "1", "2"})
IsDay(a, b) ==
    \/ a \in {"1", "2"} /\ b \in Digit
    \/ a = "0" /\ b \in Digit \ {"0"}
    \/ a = "3" /\ b \in {"0", "1"}

isISO8601(s) ==
    /\ Len(s) \in {4, 7, 10}
    /\ \A i \in 1..4 : s[i] \in Digit
    /\ Len(s) >= 7 => s[5] = "-" /\ IsMonth(s[6], s[7])
    /\ Len(s) = 10 => s[8] = "-" /\ IsDay(s[9], s[10])

-----------------------------------------------------------------------------
(* validateGroupData *)

Christmas == <<"C", "h", "r", "i", "s", "t", "m", "a", "s">>
Birthday == <<"B", "i", "r", "t", "h", "d", "a", "y">>
Hanukkah == <<"H", "a", "n", "u", "k", "k", "a", "h">>
Anniversary == <<"A", "n", "n", "i", "v", "e", "r", "s", "a", "r", "y">>
Other == <<"O", "t", "h", "e", "r">>
validHolidays == {Str(Christmas), Str(Birthday), Str(Hanukkah), Str(Anniversary), Str(Other)}

MaxGroupNameLen == 100
MaxUsers == 50
MaxUsernameLen == 100
MaxItems == 100
MaxDescriptionLen == 500
MaxDetailsLen == 1000
MaxNotesLen == 1000

\* The outcome of a function that may throw: the value returned, or thrown
Returned(v) == [thrown |-> FALSE, value |-> v]
Thrown == [thrown |-> TRUE]

\* item.description || item.item || item.name || ''
itemName(item) ==
    Or(Or(Or(Prop(item, "description"), Prop(item, "item")), Prop(item, "name")), EmptyStr)

\* The body of "for (const item of user.items)": the errors pushed for one item
ItemErrors(item) ==
    LET nm == itemName(item)
        details == Prop(item, "details")
        notes == Prop(item, "notes")
        claimedBy == Prop(item, "claimedBy")
    IN  (IF ~Truthy(nm) \/ nm.t # "string" THEN <<"Item missing description for user">>
         ELSE IF Len(nm.s) > MaxDescriptionLen THEN <<"Item description too long for user">>
         ELSE <<>>)
        \o (IF Truthy(details) /\ details.t = "string" /\ Len(details.s) > MaxDetailsLen
            THEN <<"Item details too long for user">> ELSE <<>>)
        \o (IF Truthy(notes) /\ notes.t = "string" /\ Len(notes.s) > MaxNotesLen
            THEN <<"Item notes too long for user">> ELSE <<>>)
        \o (IF Truthy(claimedBy) /\ claimedBy.t # "array"
            THEN <<"claimedBy must be an array for user">> ELSE <<>>)

RECURSIVE Concat(_, _, _)
\* The concatenation of the sequences lists[lo], ..., lists[hi]
Concat(lists, lo, hi) ==
    IF lo > hi THEN <<>>
    ELSE IF lo = hi THEN lists[lo]
    ELSE LET mid == (lo + hi) \div 2
         IN  Concat(lists, lo, mid) \o Concat(lists, mid + 1, hi)

\* The loop over user.items: a null item throws at item.description, and
\* what was pushed before is lost with the array
ItemsErrors(items) ==
    IF \E i \in 1..Len(items) : PropThrows(items[i]) THEN Thrown
    ELSE Returned(Concat([i \in 1..Len(items) |-> ItemErrors(items[i])], 1, Len(items)))

\* The body of "for (const username of usernames)"
UserErrors(username, user) ==
    LET nameErr == IF Len(username) > MaxUsernameLen THEN <<"Username too long">> ELSE <<>>
    IN  IF PropThrows(user) THEN Thrown
        ELSE LET items == Prop(user, "items")
             IN  IF ~Truthy(items) \/ items.t # "array"
                 THEN Returned(nameErr \o <<"Invalid items for user">>)
                 ELSE IF Len(items.a) > MaxItems
                 THEN Returned(nameErr \o <<"Too many items for user">>)
                 ELSE LET r == ItemsErrors(items.a)
                      IN  IF r.thrown THEN Thrown ELSE Returned(nameErr \o r.value)

\* The loop over Object.keys(data.users)
UsersErrors(entries) ==
    LET rs == [i \in 1..Len(entries) |-> UserErrors(entries[i].k, entries[i].v)]
    IN  IF \E i \in 1..Len(entries) : rs[i].thrown THEN Thrown
        ELSE Returned(Concat([i \in 1..Len(entries) |-> rs[i].value], 1, Len(entries)))

\* validateGroupData(data): Returned(errors), or Thrown when a TypeError escapes
validateGroupData(data) ==
    LET groupName == Prop(data, "groupName")
        holiday == Prop(data, "holiday")
        eventDate == Prop(data, "eventDate")
        users == Prop(data, "users")
        nameErr == IF ~Truthy(groupName) \/ groupName.t # "string"
                   THEN <<"Group name is required">>
                   ELSE IF Len(groupName.s) > MaxGroupNameLen
                   THEN <<"Group name too long (max 100 characters)">>
                   ELSE <<>>
        holidayErr == IF Truthy(holiday) /\ holiday \notin validHolidays
                      THEN <<"Invalid holiday type">> ELSE <<>>
        dateErr == IF Truthy(eventDate) /\ ~isISO8601(eventDate.s)
                   THEN <<"Invalid event date format">> ELSE <<>>
    IN  IF Truthy(eventDate) /\ eventDate.t # "string" THEN Thrown
        ELSE IF ~Truthy(users) \/ ~TypeofObject(users) \/ users.t = "array"
        THEN Returned(nameErr \o holidayErr \o dateErr \o <<"Users must be an object">>)
        ELSE LET entries == IF users.t = "map" THEN users.m ELSE <<>>
                 countErr == IF Len(entries) > MaxUsers
                             THEN <<"Too many users (max 50)">> ELSE <<>>
                 r == UsersErrors(entries)
             IN  IF r.thrown THEN Thrown
                 ELSE Returned(nameErr \o holidayErr \o dateErr \o countErr \o r.value)

-----------------------------------------------------------------------------
(* sanitizeGroupData *)

High == <<"h", "i", "g", "h">>
Medium == <<"m", "e", "d", "i", "u", "m">>
Low == <<"l", "o", "w">>
validPriorities == {Str(High), Str(Medium), Str(Low)}

SanGroupNameLen == 100
SanCreatedByLen == 100
SanUsers == 50
SanUsernameLen == 100
SanItems == 100
SanDescriptionLen == 500
SanPriceLen == 20
SanNotesLen == 1000
SanDetailsLen == 1000
SanClaimers == 10
SanClaimerLen == 100
SanSplitters == 10
SanSplitterLen == 100

DigitChars == <<"0", "1", "2", "3", "4", "5", "6", "7", "8", "9">>

RECURSIVE DigitsOf(_)
\* The decimal digits of a natural number
DigitsOf(n) ==
    IF n < 10 THEN <<DigitChars[n + 1]>>
    ELSE DigitsOf(n \div 10) \o <<DigitChars[(n % 10) + 1]>>

RECURSIVE StringOf(_)
\* String(x)
StringOf(x) ==
    CASE x.t = "string" -> x.s
      [] x.t = "number" -> IF x.n < 0 THEN <<"-">> \o DigitsOf(-x.n) ELSE DigitsOf(x.n)
      [] x.t = "boolean" -> IF x.b THEN <<"t", "r", "u", "e">> ELSE <<"f", "a", "l", "s", "e">>
      [] x.t = "undefined" -> <<"u", "n", "d", "e", "f", "i", "n", "e", "d">>
      [] x.t = "null" -> <<"n", "u", "l", "l">>
      [] x.t = "array" ->
            IF Len(x.a) = 0 THEN <<>>
            ELSE LET head == IF PropThrows(x.a[1]) THEN <<>> ELSE StringOf(x.a[1])
                 IN  IF Len(x.a) = 1 THEN head
                     ELSE head \o <<",">> \o StringOf(Arr(Tail(x.a)))
      [] OTHER -> <<"[", "o", "b", "j", "e", "c", "t", " ", "O", "b", "j", "e", "c", "t", "]">>

RECURSIVE StringThrows(_)
\* String(x) throws a TypeError: an object parsed from JSON with a key
\* "toString" of its own has no callable toString, and valueOf gives no
\* primitive; an array joins the strings of its elements
StringThrows(x) ==
    CASE x.t = "object" -> "toString" \in DOMAIN x.o
      [] x.t = "array" -> \E i \in 1..Len(x.a) : ~PropThrows(x.a[i]) /\ StringThrows(x.a[i])
      [] OTHER -> FALSE

namesUncut(x, limit, maxLength) ==
    IF x.t = "array"
    THEN Arr([i \in 1..Len(x.a) |-> sanitizeString(x.a[i], maxLength)])
    ELSE Arr(<<>>)

namesAsGiven(x, limit, maxLength) == x

\* names.slice(0, limit).map(name => sanitizeString(name, maxLength)), or []
sanitizeNames(x, limit, maxLength) ==
    IF x.t = "array"
    THEN Arr([i \in 1..Min(limit, Len(x.a)) |-> sanitizeString(x.a[i], maxLength)])
    ELSE Arr(<<>>)

sanitizeItemAsIs(item) == item

\* The object built for one item by the map callback
sanitizeItem(item) ==
    LET priority == Prop(item, "priority")
        price == Prop(item, "price")
        notes == Prop(item, "notes")
        details == Prop(item, "details")
    IN  Obj([description |-> sanitizeString(itemName(item), SanDescriptionLen),
             priority |-> IF Truthy(priority) /\ priority \in validPriorities
                          THEN priority ELSE Str(Medium),
             price |-> IF Truthy(price) THEN sanitizeString(Str(StringOf(price)), SanPriceLen)
                       ELSE EmptyStr,
             notes |-> IF Truthy(notes) THEN sanitizeString(notes, SanNotesLen) ELSE EmptyStr,
             details |-> IF Truthy(details) THEN sanitizeString(details, SanDetailsLen)
                         ELSE EmptyStr,
             claimedBy |-> sanitizeNames(Prop(item, "claimedBy"), SanClaimers, SanClaimerLen),
             purchased |-> Bool(Truthy(Prop(item, "purchased"))),
             splitWith |-> sanitizeNames(Prop(item, "splitWith"), SanSplitters, SanSplitterLen)])

\* Building the item's object throws: String(item.price)
sanitizeItemThrows(item) ==
    Truthy(Prop(item, "price")) /\ StringThrows(Prop(item, "price"))

\* user.items.slice(0, 100) when user.items is an array, else the empty list
itemsKept(user) ==
    LET items == Prop(user, "items")
    IN  IF items.t = "array" THEN SubSeq(items.a, 1, Min(SanItems, Len(items.a))) ELSE <<>>

\* Building the member's entry throws: user.items of null, item.description of
\* null, String(item.price)
sanitizeUserThrows(user) ==
    \/ PropThrows(user)
    \/ \E i \in 1..Len(itemsKept(user)) :
          \/ PropThrows(itemsKept(user)[i])
          \/ sanitizeItemThrows(itemsKept(user)[i])

\* The value assigned to sanitized.users[cleanUsername]
sanitizeUser(user) ==
    Obj([items |-> Arr([i \in 1..Len(itemsKept(user)) |-> sanitizeItem(itemsKept(user)[i])])])

\* Object.keys(data.users).slice(0, 50) with the values: the entries visited
usersVisited(users) ==
    IF ~Truthy(users) \/ ~TypeofObject(users) THEN <<>>
    ELSE LET all == CASE users.t = "map" -> users.m
                      [] users.t = "array" ->
                            [i \in 1..Len(users.a) |-> [k |-> DigitsOf(i - 1), v |-> users.a[i]]]
                      [] OTHER -> <<>>
         IN  SubSeq(all, 1, Min(SanUsers, Len(all)))

\* sanitized.users after the loop: an assignment to a key already present
\* replaces its value and keeps its place
sanitizeUsers(users) ==
    LET es == usersVisited(users)
        n == Len(es)
        clean == [i \in 1..n |-> sanitizeString(Str(es[i].k), SanUsernameLen).s]
        lastOf(i) == CHOOSE j \in i..n : clean[j] = clean[i] /\ \A x \in (j + 1)..n : clean[x] # clean[i]
        marked == [i \in 1..n |->
                     IF \E j \in 1..(i - 1) : clean[j] = clean[i]
                     THEN [k |-> clean[i], v |-> Undef]
                     ELSE [k |-> clean[i], v |-> sanitizeUser(es[lastOf(i)].v)]]
    IN  Map(SelectSeq(marked, LAMBDA e : e.v # Undef))

\* sanitizeGroupData(data): Returned(document), or Thrown
sanitizeGroupData(data) ==
    LET holiday == Prop(data, "holiday")
        createdBy == Prop(data, "createdBy")
        users == Prop(data, "users")
        es == usersVisited(users)
    IN  IF \E i \in 1..Len(es) : sanitizeUserThrows(es[i].v) THEN Thrown
        ELSE Returned(Obj([
               groupName |-> sanitizeString(Prop(data, "groupName"), SanGroupNameLen),
               holiday |-> IF Truthy(holiday) /\ holiday \in validHolidays
                           THEN holiday ELSE Str(Christmas),
               eventDate |-> Or(Prop(data, "eventDate"), EmptyStr),
               createdBy |-> IF Truthy(createdBy) THEN sanitizeString(createdBy, SanCreatedByLen)
                             ELSE EmptyStr,
               users |-> sanitizeUsers(users)]))

-----------------------------------------------------------------------------
(* The JSONB column: JSON.stringify on the way in, a canonical object on    *)
(* the way out (keys ordered by length, then bytewise)                      *)

Ascii == <<"\t", "\n", " ", "\"", "'", ",", "-", "0", "1", "2", "3", "4", "5", "6", "7",
           "8", "9", "<", ">", "A", "B", "C", "D", "E", "O", "S", "[", "]", "a", "b", "c",
           "d", "e", "f", "g", "h", "i", "j", "k", "l", "m", "n", "o", "p", "r", "s", "t",
           "u", "v", "w", "x", "y", "z">>

CharCode(c) == CHOOSE i \in 1..Len(Ascii) : Ascii[i] = c

KeyLess(a, b) ==
    \/ Len(a) < Len(b)
    \/ /\ Len(a) = Len(b)
       /\ \E i \in 1..Len(a) : /\ CharCode(a[i]) < CharCode(b[i])
                               /\ \A j \in 1..(i - 1) : a[j] = b[j]

\* The entries of an object in JSONB key order
jsonbEntries(es) ==
    LET n == Len(es)
        rank(i) == 1 + Cardinality({j \in 1..n : KeyLess(es[j].k, es[i].k)})
    IN  [r \in 1..n |-> es[CHOOSE i \in 1..n : rank(i) = r]]

\* What SELECT data returns for a document stored with JSON.stringify(sanitizedData)
jsonb(doc) == Obj([doc.o EXCEPT !.users = Map(jsonbEntries(doc.o.users.m))])

\* The keys of a stored document, with their lengths
KeyLength ==
    [groupName |-> 9, holiday |-> 7, eventDate |-> 9, createdBy |-> 9, users |-> 5,
     items |-> 5, description |-> 11, priority |-> 8, price |-> 5, notes |-> 5,
     details |-> 7, claimedBy |-> 9, purchased |-> 9, splitWith |-> 9]

\* The characters JSON.stringify writes as two
Escaped == {"\"", "\\", "\t", "\n"}

\* The length of a string between its quotes
quotedLength(s) == 2 + Len(s) + Cardinality({i \in 1..Len(s) : s[i] \in Escaped})

RECURSIVE jsonLength(_)
RECURSIVE jsonLengths(_, _, _)
RECURSIVE jsonKeysLength(_, _)

\* JSON.stringify(x).length
jsonLength(x) ==
    CASE x.t = "string" -> quotedLength(x.s)
      [] x.t = "number" -> Len(StringOf(x))
      [] x.t = "boolean" -> IF x.b THEN 4 ELSE 5
      [] x.t = "null" -> 4
      [] x.t = "array" ->
            2 + jsonLengths([i \in 1..Len(x.a) |-> jsonLength(x.a[i])], 1, Len(x.a))
              + (IF Len(x.a) = 0 THEN 0 ELSE Len(x.a) - 1)
      [] x.t = "object" -> 2 + jsonKeysLength(x.o, DOMAIN x.o) + Cardinality(DOMAIN x.o) - 1
      [] x.t = "map" ->
            2 + jsonLengths([i \in 1..Len(x.m) |->
                                quotedLength(x.m[i].k) + 1 + jsonLength(x.m[i].v)], 1, Len(x.m))
              + (IF Len(x.m) = 0 THEN 0 ELSE Len(x.m) - 1)

\* The sum of the lengths lo..hi
jsonLengths(lengths, lo, hi) ==
    IF lo > hi THEN 0
    ELSE IF lo = hi THEN lengths[lo]
    ELSE LET mid == (lo + hi) \div 2
         IN  jsonLengths(lengths, lo, mid) + jsonLengths(lengths, mid + 1, hi)

\* The sum over the keys of "key":value
jsonKeysLength(r, keys) ==
    IF keys = {} THEN 0
    ELSE LET k == CHOOSE x \in keys : TRUE
         IN  KeyLength[k] + 3 + jsonLength(r[k]) + jsonKeysLength(r, keys \ {k})

\* dataSize > 500000 in the handler of the earlier version
SizeCap == 500000

-----------------------------------------------------------------------------
(* Input documents *)

Ann == <<"A", "n", "n">>
Bob == <<"B", "o", "b">>
Fam == <<"F", "a", "m">>
Socks == <<"S", "o", "c", "k", "s">>
Book == <<"B", "o", "o", "k">>
XmasDay == <<"2", "0", "2", "5", "-", "1", "2", "-", "2", "5">>

Entry(name, user) == [k |-> name, v |-> user]
User(items) == Obj([items |-> Arr(items)])
Doc(groupName, users) == Obj([groupName |-> groupName, users |-> users])

\* Ann wishes for socks, which Bob has claimed, bought and splits with Ann's
\* other giver; Bob wishes for a book that nobody has claimed
docClaimed ==
    Obj([groupName |-> Str(Fam), holiday |-> Str(Birthday), eventDate |-> Str(XmasDay),
         createdBy |-> Str(Ann),
         users |-> Map(<<
            Entry(Ann, User(<<Obj([description |-> Str(Socks), priority |-> Str(High),
                                   claimedBy |-> Arr(<<Str(Bob)>>), purchased |-> Bool(TRUE),
                                   splitWith |-> Arr(<<Str(Bob)>>)])>>)),
            Entry(Bob, User(<<Obj([description |-> Str(Book)])>>))>>)])

\* The same group written by another member: markup in the name, a legacy
\* item shape, an unknown key, Bob listed first
docMarkup ==
    Obj([groupName |-> Str(<<"<", "b", ">">> \o Fam), createdBy |-> Str(Ann), color |-> Str(Low),
         users |-> Map(<<
            Entry(Bob, User(<<Obj([name |-> Str(Book), claimedBy |-> Arr(<<Str(Ann)>>),
                                   price |-> Num(25)])>>)),
            Entry(Ann, User(<<>>))>>)])

\* claimedBy in the historical shape: one bare name
docBareClaim ==
    Doc(Str(Fam), Map(<<Entry(Ann, User(<<Obj([description |-> Str(Socks),
                                               claimedBy |-> Str(Bob)])>>))>>))

\* A member whose value is null
docNullUser == Doc(Str(Fam), Map(<<Entry(Ann, Null)>>))

\* The documents the clients of the service submit
ServiceDocs == {docClaimed, docMarkup, docBareClaim, docNullUser}
MemberNames == {Ann, Bob}

-----------------------------------------------------------------------------
(* The service: state *)

G1 == <<"g", "1">>
G2 == <<"g", "2">>
GSpace == <<"g", " ">>
GroupIds == {G1, G2, GSpace}

Letters == {"a", "b", "c", "d", "e", "f", "g", "h", "i", "j", "k", "l", "m", "n", "o", "p",
            "q", "r", "s", "t", "u", "v", "w", "x", "y", "z"}
Capitals == {"A", "B", "C", "D", "E", "F", "G", "H", "I", "J", "K", "L", "M", "N", "O", "P",
             "Q", "R", "S", "T", "U", "V", "W", "X", "Y", "Z"}
MaxGroupIdLen == 255

\* !(!groupId || groupId.length > 255 || !/^[a-zA-Z0-9-_]+$/.test(groupId))
validGroupId(g) ==
    /\ Len(g) > 0
    /\ Len(g) <= MaxGroupIdLen
    /\ \A i \in 1..Len(g) : g[i] \in Letters \cup Capitals \cup Digit \cup {"-", "_"}

\* The keys the table can hold among the ids the clients use
Keys == {g \in GroupIds : validGroupId(g)}

NoRow == [present |-> FALSE]

\* A row of contact_submissions as POST /api/contact inserts it: status 'new'
\* by default, no admin_notes
Submission == [status |-> "new", admin_notes |-> Null]
Row(data, t) == [present |-> TRUE, data |-> data, updated_at |-> t]

Clients == {"c1", "c2"}

\* The clock ticks this many times an hour
Hour == 2
Year == 365 * 24 * Hour
RetentionYears == 2
MaxYears == 3
creationMax == 10
MaxAttempts == 1

NoReq == [op |-> "none"]
NoResponse == [op |-> "none"]
NoInput == [t |-> "none"]
NoResult == [stage |-> "none"]
Secret == "secret"
Unset == "unset"

Init ==
    /\ store = [g \in Keys |-> NoRow]
    /\ contacts = <<>>
    /\ now = 0
    /\ pc = [c \in Clients |-> "idle"]
    /\ req = [c \in Clients |-> NoReq]
    /\ creationHits = 0
    /\ sweepPending = TRUE
    /\ adminPassword = Secret
    /\ adminSessions = <<>>
    /\ nextToken = 0
    /\ last = NoResponse
    /\ vin = NoInput
    /\ vres = NoResult

-----------------------------------------------------------------------------
(* The service: handlers.  A handler runs to its next await in one step; the  *)
(* statement it awaits is executed by the database in the step that follows. *)

Response(op, g, status, message) == [op |-> op, g |-> g, status |-> status, message |-> message]

\* What a handler leaves in "last" when it awaits a statement without answering
Await(c) == [op |-> "await", c |-> c]

\* SELECT data FROM groups WHERE group_id = $1, as result.rows
selectData(g) == IF store[g].present THEN <<store[g].data>> ELSE <<>>

\* GET /api/groups/:groupId
getResponse(g) ==
    IF ~validGroupId(g) THEN Response("GET", g, 400, "Invalid group ID format")
    ELSE IF Len(selectData(g)) = 0
    THEN [op |-> "GET", g |-> g, status |-> 200, success |-> TRUE, data |-> Null]
    ELSE [op |-> "GET", g |-> g, status |-> 200, success |-> TRUE, data |-> selectData(g)[1]]

GetRefreshes(g) ==
    /\ last' = getResponse(g)
    /\ store' = IF validGroupId(g) /\ store[g].present
                THEN [store EXCEPT ![g].updated_at = now] ELSE store
    /\ UNCHANGED <<contacts, now, handlers, limiter, sweepPending, admin, study>>

Get(g) ==
    /\ last' = getResponse(g)
    /\ UNCHANGED <<db, now, handlers, limiter, sweepPending, admin, study>>

validationFailedOnSecondError(validationErrors) == Len(validationErrors) > 1

\* validationErrors.length > 0
validationFailed(validationErrors) == Len(validationErrors) > 0

\* The answer of the POST handler's catch block
Failed(g, d) ==
    [op |-> "POST", g |-> g, status |-> 500, message |-> "Error saving group data",
     groupData |-> d]

\* POST /api/groups/:groupId up to its first await: the id check, the
\* Validator, the Sanitizer, then SELECT group_id FROM groups WHERE group_id = $1.
\* At most cap requests per window find the group missing.
PostBegin(c, g, d, cap) ==
    /\ pc[c] = "idle"
    /\ (validGroupId(g) /\ ~store[g].present) => creationHits < cap
    /\ LET v == validateGroupData(d)
           s == sanitizeGroupData(d)
       IN  IF ~validGroupId(g)
           THEN /\ last' = Response("POST", g, 400, "Invalid group ID format")
                /\ UNCHANGED handlers
           ELSE IF v.thrown
           THEN /\ last' = Failed(g, d)
                /\ UNCHANGED handlers
           ELSE IF validationFailed(v.value)
           THEN /\ last' = [op |-> "POST", g |-> g, status |-> 400,
                            message |-> "Validation failed", errors |-> v.value,
                            groupData |-> d]
                /\ UNCHANGED handlers
           ELSE IF s.thrown
           THEN /\ last' = Failed(g, d)
                /\ UNCHANGED handlers
           ELSE /\ pc' = [pc EXCEPT ![c] = IF store[g].present THEN "update" ELSE "limiter"]
                /\ req' = [req EXCEPT ![c] = [op |-> "POST", g |-> g, groupData |-> d,
                                              sanitizedData |-> s.value, serial |-> TRUE]]
                /\ last' = Await(c)
    /\ UNCHANGED <<db, now, limiter, sweepPending, admin, study>>

\* The steps of c's request have run back to back so far
Serial(c) == req[c].serial /\ last = Await(c)

\* existingGroup.rows.length === 0: groupCreationLimiter(req, res, callback)
PostLimiter(c) ==
    /\ pc[c] = "limiter"
    /\ creationHits' = IF creationHits > creationMax THEN creationHits ELSE creationHits + 1
    /\ IF creationHits + 1 > creationMax
       THEN /\ last' = Response("POST", req[c].g, 429,
                                "Too many groups created, please try again later.")
            /\ pc' = [pc EXCEPT ![c] = "idle"]
            /\ req' = [req EXCEPT ![c] = NoReq]
       ELSE /\ last' = Await(c)
            /\ pc' = [pc EXCEPT ![c] = "insert"]
            /\ req' = [req EXCEPT ![c].serial = Serial(c)]
    /\ UNCHANGED <<db, now, sweepPending, admin, study>>

storedValueKeepsOld(c) ==
    IF store[req[c].g].present THEN store[req[c].g].data ELSE jsonb(req[c].sanitizedData)

storedValueRaw(c) == req[c].groupData

\* The data column after the statement ran with $1/$2 = JSON.stringify(sanitizedData)
storedValue(c) == jsonb(req[c].sanitizedData)

\* The answer to a POST that reached its INSERT or UPDATE
Written(c, status, message) ==
    [op |-> "POST", g |-> req[c].g, status |-> status, message |-> message,
     groupData |-> req[c].groupData, serial |-> Serial(c)]

\* INSERT INTO groups (group_id, data, updated_at) VALUES ($1, $2, CURRENT_TIMESTAMP)
PostInsert(c) ==
    /\ pc[c] = "insert"
    /\ IF store[req[c].g].present
       THEN \* duplicate key value violates unique constraint "groups_pkey"
            /\ last' = Written(c, 500, "Error creating group")
            /\ UNCHANGED store
       ELSE /\ store' = [store EXCEPT ![req[c].g] = Row(storedValue(c), now)]
            /\ last' = Written(c, 200, "Group created successfully")
    /\ pc' = [pc EXCEPT ![c] = "idle"]
    /\ req' = [req EXCEPT ![c] = NoReq]
    /\ UNCHANGED <<contacts, now, limiter, sweepPending, admin, study>>

PostUpdateKeepsTimestamp(c) ==
    /\ pc[c] = "update"
    /\ store' = IF store[req[c].g].present
                THEN [store EXCEPT ![req[c].g].data = storedValue(c)]
                ELSE store
    /\ last' = Written(c, 200, "Group updated successfully")
    /\ pc' = [pc EXCEPT ![c] = "idle"]
    /\ req' = [req EXCEPT ![c] = NoReq]
    /\ UNCHANGED <<contacts, now, limiter, sweepPending, admin, study>>

\* UPDATE groups SET data = $1, updated_at = CURRENT_TIMESTAMP WHERE group_id = $2
PostUpdate(c) ==
    /\ pc[c] = "update"
    /\ store' = IF store[req[c].g].present
                THEN [store EXCEPT ![req[c].g] = Row(storedValue(c), now)]
                ELSE store
    /\ last' = Written(c, 200, "Group updated successfully")
    /\ pc' = [pc EXCEPT ![c] = "idle"]
    /\ req' = [req EXCEPT ![c] = NoReq]
    /\ UNCHANGED <<contacts, now, limiter, sweepPending, admin, study>>

DeleteAnswersOnly(g) ==
    /\ last' = IF ~validGroupId(g)
               THEN Response("DELETE", g, 400, "Invalid group ID format")
               ELSE Response("DELETE", g, 200, "Group deleted successfully")
    /\ UNCHANGED <<db, now, handlers, limiter, sweepPending, admin, study>>

\* DELETE /api/groups/:groupId
Delete(g) ==
    /\ IF ~validGroupId(g)
       THEN /\ last' = Response("DELETE", g, 400, "Invalid group ID format")
            /\ UNCHANGED store
       ELSE /\ store' = [store EXCEPT ![g] = NoRow]
            /\ last' = Response("DELETE", g, 200, "Group deleted successfully")
    /\ UNCHANGED <<contacts, now, handlers, limiter, sweepPending, admin, study>>

expiredAtCutoff(row) == row.present /\ row.updated_at <= now - RetentionYears * Year

\* updated_at < NOW() - INTERVAL '2 years'
expired(row) == row.present /\ row.updated_at < now - RetentionYears * Year

\* DELETE FROM groups WHERE updated_at < NOW() - INTERVAL '2 years': the table after
sweepExpired == [g \in Keys |-> IF expired(store[g]) THEN NoRow ELSE store[g]]

\* result.rowCount of that statement
sweepCount == Cardinality({g \in Keys : expired(store[g])})

\* cleanupOldGroups(), called once when the server starts
cleanupOldGroups ==
    /\ sweepPending
    /\ sweepPending' = FALSE
    /\ store' = sweepExpired
    /\ last' = [op |-> "cleanupOldGroups", rowCount |-> sweepCount]
    /\ UNCHANGED <<contacts, now, handlers, limiter, admin, study>>

\* The process is restarted: what it held in memory is gone, requests in
\* flight are dropped, and the startup code runs again
Restart ==
    /\ pc' = [c \in Clients |-> "idle"]
    /\ req' = [c \in Clients |-> NoReq]
    /\ creationHits' = 0
    /\ adminSessions' = <<>>
    /\ sweepPending' = TRUE
    /\ last' = NoResponse
    /\ UNCHANGED <<db, now, adminPassword, nextToken, study>>

\* A year passes; the limiter's one-hour window has expired with it
Tick ==
    /\ now < MaxYears * Year
    /\ now' = now + Year
    /\ creationHits' = 0
    /\ last' = NoResponse
    /\ UNCHANGED <<db, handlers, sweepPending, admin, study>>

-----------------------------------------------------------------------------
(* The admin endpoints.  A session token is crypto.randomBytes(32): each     *)
(* login draws one that was never issued before.                             *)

\* expiresAt - createdAt: 2 * 60 * 60 * 1000 ms, in hours
SessionLife == 2
MaxTokens == 1

\* The Authorization header: none, or 'Bearer ' followed by a token
NoHeader == [scheme |-> "none"]
Bearer(token) == [scheme |-> "Bearer", token |-> token]
Headers(cap) == {NoHeader} \cup {Bearer(token) : token \in 1..cap}
Passwords == {Secret, "guess"}

\* adminSessions after adminSessions.delete(token)
sessionsWithout(token) == [t \in DOMAIN adminSessions \ {token} |-> adminSessions[t]]

sessionKnown(token) == token \in DOMAIN adminSessions

\* !(!session || Date.now() > session.expiresAt)
sessionLive(token) ==
    /\ token \in DOMAIN adminSessions
    /\ ~(now > adminSessions[token].expiresAt)

\* requireAdmin(req, res, next): its own answer, or next(), and the sessions it leaves
requireAdmin(op, auth) ==
    IF auth.scheme # "Bearer"
    THEN [next |-> FALSE, sessions |-> adminSessions,
          response |-> [op |-> op, status |-> 401, success |-> FALSE,
                        message |-> "Unauthorized"]]
    ELSE IF ~sessionLive(auth.token)
    THEN [next |-> FALSE, sessions |-> sessionsWithout(auth.token),
          response |-> [op |-> op, status |-> 401, success |-> FALSE,
                        message |-> "Session expired"]]
    ELSE [next |-> TRUE, sessions |-> adminSessions]

\* POST /admin/api/login, while fewer than cap tokens were issued
AdminLogin(password, cap) ==
    /\ IF adminPassword = Unset
       THEN /\ last' = [op |-> "login", status |-> 500, success |-> FALSE,
                        message |-> "Admin password not configured"]
            /\ UNCHANGED <<adminSessions, nextToken>>
       ELSE IF password # adminPassword
       THEN /\ last' = [op |-> "login", status |-> 401, success |-> FALSE,
                        message |-> "Invalid password"]
            /\ UNCHANGED <<adminSessions, nextToken>>
       ELSE /\ nextToken < cap
            /\ nextToken' = nextToken + 1
            /\ adminSessions' =
                   [t \in DOMAIN adminSessions \cup {nextToken + 1} |->
                       IF t = nextToken + 1
                       THEN [createdAt |-> now, expiresAt |-> now + SessionLife * Hour]
                       ELSE adminSessions[t]]
            /\ last' = [op |-> "login", status |-> 200, success |-> TRUE,
                        token |-> nextToken + 1]
    /\ UNCHANGED <<db, now, handlers, limiter, sweepPending, adminPassword, study>>

\* The answer, with the Authorization header of the request it answers
From(auth, response) ==
    [k \in DOMAIN response \cup {"auth"} |-> IF k = "auth" THEN auth ELSE response[k]]

\* An admin endpoint behind requireAdmin: the middleware's answer, or the handler's
\* answer with the tables and the sessions the handler leaves
Answered(op, auth, response, table, sessions, submissions) ==
    LET r == requireAdmin(op, auth)
    IN  /\ last' = From(auth, IF r.next THEN response ELSE r.response)
        /\ store' = IF r.next THEN table ELSE store
        /\ contacts' = IF r.next THEN submissions ELSE contacts
        /\ adminSessions' = IF r.next THEN sessions ELSE r.sessions
        /\ UNCHANGED <<now, handlers, limiter, sweepPending, adminPassword, nextToken, study>>

\* An admin endpoint that leaves contact_submissions alone
Guarded(op, auth, response, table, sessions) ==
    Answered(op, auth, response, table, sessions, contacts)

AdminLogoutKeepsSession(auth) ==
    Guarded("logout", auth, [op |-> "logout", status |-> 200, success |-> TRUE],
            store, adminSessions)

\* POST /admin/api/logout
AdminLogout(auth) ==
    Guarded("logout", auth, [op |-> "logout", status |-> 200, success |-> TRUE],
            store, sessionsWithout(auth.token))

\* Object.keys(row.data.users || {}).length
userCount(data) == Len(data.o.users.m)

\* The sum over the members of user.items?.length || 0
RECURSIVE itemCountFrom(_, _)
itemCountFrom(data, i) ==
    IF i > Len(data.o.users.m) THEN 0
    ELSE Len(Prop(data.o.users.m[i].v, "items").a) + itemCountFrom(data, i + 1)

itemCount(data) == itemCountFrom(data, 1)

RECURSIVE Sum(_, _)
Sum(f, S) == IF S = {} THEN 0 ELSE LET x == CHOOSE y \in S : TRUE IN f[x] + Sum(f, S \ {x})

\* The rows of the table
Present == {g \in Keys : store[g].present}

\* GET /admin/api/stats (the counts taken from the groups' data)
AdminStats(auth) ==
    Guarded("stats", auth,
            [op |-> "stats", status |-> 200, success |-> TRUE,
             stats |-> [totalGroups |-> Cardinality(Present),
                        totalUsers |-> Sum([g \in Present |-> userCount(store[g].data)], Present),
                        totalItems |-> Sum([g \in Present |-> itemCount(store[g].data)], Present)]],
            store, adminSessions)

\* GET /admin/api/groups, first page without a search term: the entries of the
\* answer (their order, by updated_at, is left aside)
AdminGroups(auth) ==
    Guarded("groups", auth,
            [op |-> "groups", status |-> 200, success |-> TRUE,
             groups |-> {[groupId |-> g,
                          groupName |-> store[g].data.o.groupName,
                          holiday |-> store[g].data.o.holiday,
                          eventDate |-> store[g].data.o.eventDate,
                          userCount |-> userCount(store[g].data),
                          itemCount |-> itemCount(store[g].data),
                          updatedAt |-> store[g].updated_at] : g \in Present}],
            store, adminSessions)

AdminGroupRecordsObserver(auth, g) ==
    Guarded("group", auth,
            IF g \notin Present
            THEN [op |-> "group", g |-> g, status |-> 404, success |-> FALSE,
                  message |-> "Group not found"]
            ELSE [op |-> "group", g |-> g, status |-> 200, success |-> TRUE,
                  data |-> store[g].data],
            IF g \notin Present THEN store
            ELSE [store EXCEPT ![g].data.o.users.m = Append(@, Entry(<<"a", "d", "m", "i", "n">>,
                                                                     User(<<>>)))],
            adminSessions)

\* GET /admin/api/groups/:groupId (observer mode)
AdminGroup(auth, g) ==
    Guarded("group", auth,
            IF g \notin Present
            THEN [op |-> "group", g |-> g, status |-> 404, success |-> FALSE,
                  message |-> "Group not found"]
            ELSE [op |-> "group", g |-> g, status |-> 200, success |-> TRUE,
                  data |-> store[g].data],
            store, adminSessions)

\* DELETE /admin/api/groups/:groupId
AdminDelete(auth, g) ==
    Guarded("adminDelete", auth,
            [op |-> "adminDelete", g |-> g, status |-> 200, success |-> TRUE],
            [k \in Keys |-> IF k = g THEN NoRow ELSE store[k]], adminSessions)

\* The ids and the status an administrator sends for a submission
ContactIds == {1}
Statuses == {"read"}

\* GET /admin/api/contacts
AdminContacts(auth) ==
    Answered("contacts", auth,
             [op |-> "contacts", status |-> 200, success |-> TRUE, contacts |-> contacts],
             store, adminSessions, contacts)

\* PUT /admin/api/contacts/:id with {status} and no adminNotes:
\* UPDATE contact_submissions SET status = $1, admin_notes = $2 WHERE id = $3
AdminContactUpdate(auth, id, status) ==
    Answered("contactUpdate", auth,
             [op |-> "contactUpdate", status |-> 200, success |-> TRUE],
             store, adminSessions,
             [i \in DOMAIN contacts |->
                 IF i = id THEN [status |-> status, admin_notes |-> Null] ELSE contacts[i]])

\* POST /admin/api/cleanup
AdminCleanup(auth) ==
    Guarded("cleanup", auth,
            [op |-> "cleanup", status |-> 200, success |-> TRUE, deletedCount |-> sweepCount],
            sweepExpired, adminSessions)

\* The admin endpoints on the groups and the sessions, for the ids GS, with
\* at most cap tokens issued
Admin(GS, cap) ==
    \/ \E password \in Passwords : AdminLogin(password, cap)
    \/ \E auth \in Headers(cap) : AdminLogout(auth)
    \/ \E auth \in Headers(cap) : AdminStats(auth)
    \/ \E auth \in Headers(cap) : AdminGroups(auth)
    \/ \E auth \in Headers(cap), g \in GS : AdminGroup(auth, g)
    \/ \E auth \in Headers(cap), g \in GS : AdminDelete(auth, g)
    \/ \E auth \in Headers(cap) : AdminCleanup(auth)

\* The admin endpoints on the contact submissions
AdminOnContacts(cap) ==
    \/ \E auth \in Headers(cap) : AdminContacts(auth)
    \/ \E auth \in Headers(cap), id \in ContactIds, status \in Statuses :
          AdminContactUpdate(auth, id, status)

-----------------------------------------------------------------------------
(* The specifications *)

\* The public endpoints, for requests in the slots CS on the ids GS with the
\* documents DS, of which at most cap per window reach the creation limiter
Public(CS, GS, DS, cap) ==
    \/ \E g \in GS : Get(g)
    \/ \E c \in CS, g \in GS, d \in DS : PostBegin(c, g, d, cap)
    \/ \E c \in CS : PostLimiter(c)
    \/ \E c \in CS : PostInsert(c)
    \/ \E c \in CS : PostUpdate(c)
    \/ \E g \in GS : Delete(g)

\* One request in flight at a time, with time, restarts and the startup sweep
Next ==
    \/ Public({"c1"}, GroupIds, ServiceDocs, MaxAttempts)
    \/ cleanupOldGroups
    \/ Restart
    \/ Tick

Spec == Init /\ [][Next]_vars

\* Two requests in flight on one group
NextConc == Public(Clients, {G1}, {docClaimed, docMarkup}, MaxAttempts + 1)

SpecConc == Init /\ [][NextConc]_vars

\* The public and the admin endpoints on one group, one request in flight at
\* a time, with time, restarts and the startup sweep
NextAdmin ==
    \/ Public({"c1"}, {G1}, {docClaimed, docBareClaim}, MaxAttempts)
    \/ Admin({G1}, MaxTokens)
    \/ cleanupOldGroups
    \/ Restart
    \/ Tick

SpecAdmin == Init /\ [][NextAdmin]_vars

\* The server keeps running after its start: the public endpoints on one
\* group and the passing of time, with no restart and no administrator
NextRunning ==
    \/ Public({"c1"}, {G1}, {docClaimed}, MaxAttempts)
    \/ cleanupOldGroups
    \/ Tick

\* The startup sweep runs, requests in flight are answered, time passes
SpecRunning ==
    /\ Init
    /\ [][NextRunning]_vars
    /\ WF_vars(cleanupOldGroups)
    /\ WF_vars(Tick)
    /\ WF_vars(PostLimiter("c1"))
    /\ WF_vars(PostInsert("c1"))
    /\ WF_vars(PostUpdate("c1"))

\* The clock a session is followed on runs until one tick past a session's life
MaxWait == SessionLife * Hour + 1

\* One tick of the clock passes; the limiter's window may end with it
Wait ==
    /\ now < MaxWait
    /\ now' = now + 1
    /\ creationHits' \in {creationHits, 0}
    /\ last' = NoResponse
    /\ UNCHANGED <<db, handlers, sweepPending, admin, study>>

\* The process has started and run its sweep; ADMIN_PASSWORD is set or not,
\* and the tables hold what an earlier run left in them: one contact
\* submission, and no group or one
InitSession ==
    /\ store \in {[g \in Keys |-> NoRow],
                  [g \in Keys |-> IF g = G1 THEN Row(jsonb(sanitizeGroupData(docClaimed).value), 0)
                                   ELSE NoRow]}
    /\ contacts = <<Submission>>
    /\ now = 0
    /\ pc = [c \in Clients |-> "idle"]
    /\ req = [c \in Clients |-> NoReq]
    /\ creationHits = 0
    /\ sweepPending = FALSE
    /\ adminPassword \in {Secret, Unset}
    /\ adminSessions = <<>>
    /\ nextToken = 0
    /\ last = NoResponse
    /\ vin = NoInput
    /\ vres = NoResult

\* The administrators' sessions, followed tick by tick over a few hours
NextSession ==
    \/ Admin({G1}, MaxTokens + 1)
    \/ AdminOnContacts(MaxTokens + 1)
    \/ Wait

SpecSession == InitSession /\ [][NextSession]_vars

-----------------------------------------------------------------------------
(* The Validator and the Sanitizer on untyped input, as the POST handler     *)
(* calls them: validateGroupData(groupData), then, when no error was         *)
(* reported, sanitizeGroupData(groupData)                                    *)

\* The member name "u<i>"
Member(i) == <<"u">> \o DigitsOf(i)

Item(description) == Obj([description |-> description])
Plain == User(<<Item(Str(Socks))>>)

\* n members with one item each, then the entries of extra
Crowd(n, extra) == [i \in 1..n |-> Entry(Member(i), Plain)] \o extra

\* Values of "users" that are no mapping of members
NotAMapping == {Undef, Null, Arr(<<>>), Arr(<<Plain>>), Str(Ann), Num(5), Bool(TRUE)}

\* Mappings whose members or items have the wrong type
Mistyped == {
    Map(<<Entry(Ann, Null)>>),
    Map(<<Entry(Ann, Str(Bob))>>),
    Map(<<Entry(Ann, Obj([wishlist |-> Arr(<<>>)]))>>),
    Map(<<Entry(Ann, User(<<Null>>))>>),
    Map(<<Entry(Ann, User(<<Item(Str(Socks)), Null>>))>>),
    Map(<<Entry(Ann, User(<<Str(Socks)>>))>>),
    Map(<<Entry(Ann, User(<<Item(Num(5))>>))>>),
    Map(<<Entry(Ann, User(<<Obj([description |-> Str(Socks), notes |-> Num(5),
                                 details |-> Arr(<<>>)])>>))>>)}

\* The shapes of claimedBy
Claims == {
    Map(<<Entry(Ann, User(<<Obj([description |-> Str(Socks), claimedBy |-> c])>>))>>) :
        c \in {Arr(<<>>), Arr(<<Str(Bob)>>), Null, Str(Bob), Str(<<>>), Str(<<" ">>),
               Num(1), Bool(TRUE)}}

\* The description and its aliases
Described == {
    Map(<<>>),
    Map(<<Entry(Ann, User(<<>>))>>),
    Map(<<Entry(Ann, User(<<Obj([item |-> Str(Socks)])>>))>>),
    Map(<<Entry(Ann, User(<<Obj([name |-> Str(Socks)])>>))>>),
    Map(<<Entry(Ann, User(<<Obj([description |-> Str(<<>>), name |-> Str(Socks)])>>))>>),
    Map(<<Entry(Ann, User(<<Obj([price |-> Num(5)])>>))>>),
    Map(<<Entry(Ann, User(<<Item(Str(<<>>))>>))>>)}

\* Documents at a size bound (by = 0) and one past it (by = 1)
Sized(by) == {
    Map(Crowd(MaxUsers + by, <<>>)),
    Map(<<Entry(Rep("a", MaxUsernameLen + by), Plain)>>),
    Map(<<Entry(Ann, User([i \in 1..(MaxItems + by) |-> Item(Str(Socks))]))>>),
    Map(<<Entry(Ann, User(<<Item(Str(Rep("a", MaxDescriptionLen + by)))>>))>>),
    Map(<<Entry(Ann, User(<<Obj([item |-> Str(Rep("a", MaxDescriptionLen + by))])>>))>>),
    Map(<<Entry(Ann, User(<<Obj([name |-> Str(Rep("a", MaxDescriptionLen + by))])>>))>>),
    Map(<<Entry(Ann, User(<<Obj([description |-> Str(Socks),
                                 notes |-> Str(Rep("a", MaxNotesLen + by))])>>))>>),
    Map(<<Entry(Ann, User(<<Obj([description |-> Str(Socks),
                                 details |-> Str(Rep("a", MaxDetailsLen + by))])>>))>>)}

\* A document at every size bound at once
AtEveryBound ==
    Map(Crowd(MaxUsers - 2, <<
        Entry(Rep("a", MaxUsernameLen), Plain),
        Entry(Ann, User([i \in 1..MaxItems |->
                            Obj([description |-> Str(Rep("a", MaxDescriptionLen)),
                                 notes |-> Str(Rep("a", MaxNotesLen)),
                                 details |-> Str(Rep("a", MaxDetailsLen))])]))>>))

\* Past a size bound, with one member that is null
OversizedWithNull == {
    Map(Crowd(MaxUsers, <<Entry(Ann, Null)>>)),
    Map(<<Entry(Ann, User(<<Item(Str(Rep("a", MaxDescriptionLen + 1)))>>)), Entry(Bob, Null)>>)}

\* What the Validator puts no bound on (price, the names in claimedBy and
\* splitWith and their number) past the Sanitizer's bound, and member names
\* with markup
Unbounded == {
    Map(<<Entry(Ann, User(<<Obj([description |-> Str(Socks), price |-> p])>>))>>) :
        p \in {Num(25), Str(Rep("1", SanPriceLen + 1)),
               Str(Rep("1", SanPriceLen - 1) \o <<" ", "1">>),
               Arr(<<Num(1), Null, Num(2)>>), Obj([amount |-> Num(5)]),
               Obj([toString |-> Null])}}
    \cup {
    Map(<<Entry(Ann, User(<<Obj([description |-> Str(Socks), claimedBy |-> Arr(<<n>>),
                                 splitWith |-> Arr(<<n, Str(Bob)>>)])>>))>>) :
        n \in {Str(Rep("a", SanClaimerLen + 1)),
               Str(Rep("a", SanClaimerLen - 1) \o <<" ", "b">>)}}
    \cup {
    Map(<<Entry(Ann, User(<<Obj([description |-> Str(Socks),
                                 claimedBy |-> Arr([i \in 1..(SanClaimers + 1) |-> Str(Member(i))]),
                                 splitWith |-> Arr([i \in 1..(SanSplitters + 2) |-> Str(Member(i))])
                                ])>>))>>)}
    \cup {
    Map(<<Entry(<<"<", "b", ">">> \o Ann, Plain), Entry(Ann, User(<<>>))>>),
    Map(<<Entry(<<" ">> \o Ann \o <<"'">>, Plain), Entry(Bob, Plain)>>)}

UsersSamples ==
    NotAMapping \cup Mistyped \cup Claims \cup Described \cup Sized(0) \cup Sized(1)
        \cup {AtEveryBound} \cup OversizedWithNull \cup Unbounded

GroupNameSamples == {Str(Fam), Str(Rep("a", MaxGroupNameLen))}
EventDateSamples == {Undef, Str(XmasDay), Num(2025)}

\* A document with keys of its own making at every level
docExtraKeys ==
    Obj([groupName |-> Str(Fam), theme |-> Str(Low), isAdmin |-> Bool(TRUE),
         users |-> Map(<<
            Entry(Ann, Obj([items |-> Arr(<<Obj([description |-> Str(Socks),
                                                 url |-> Str(Book), claimedAt |-> Num(5)])>>),
                            role |-> Str(High), email |-> Str(Bob)]))>>)])

RawDocs ==
    {Obj([groupName |-> gn, eventDate |-> ed, users |-> us]) :
        gn \in GroupNameSamples, ed \in EventDateSamples, us \in UsersSamples}
    \cup {docExtraKeys}

\* The state at process start, with one of the documents at hand
InitWith(docs) ==
    /\ store = [g \in Keys |-> NoRow]
    /\ contacts = <<>>
    /\ now = 0
    /\ pc = [c \in Clients |-> "idle"]
    /\ req = [c \in Clients |-> NoReq]
    /\ creationHits = 0
    /\ sweepPending = TRUE
    /\ adminPassword = Secret
    /\ adminSessions = <<>>
    /\ nextToken = 0
    /\ last = NoResponse
    /\ vin \in docs
    /\ vres = [stage |-> "input"]

InitV == InitWith(RawDocs)

usersDefaulted(data) ==
    IF Truthy(Prop(data, "users")) THEN data
    ELSE Obj([k \in DOMAIN data.o \cup {"users"} |->
                 IF k = "users" THEN Map(<<>>) ELSE data.o[k]])

\* The argument after validateGroupData(data) ran: the function reads data,
\* data.users, the members and the items, and assigns to none of them
validatedInput(data) == data

\* const validationErrors = validateGroupData(groupData)
Validate ==
    /\ vres.stage = "input"
    /\ vres' = [stage |-> "validated", result |-> validateGroupData(vin)]
    /\ vin' = validatedInput(vin)
    /\ UNCHANGED <<db, now, handlers, limiter, sweepPending, admin, last>>

\* const sanitizedData = sanitizeGroupData(groupData), reached when no error was reported
Sanitize ==
    /\ vres.stage = "validated"
    /\ ~vres.result.thrown
    /\ ~validationFailed(vres.result.value)
    /\ vres' = [stage |-> "sanitized", result |-> vres.result,
                sanitized |-> sanitizeGroupData(vin)]
    /\ UNCHANGED <<db, now, handlers, limiter, sweepPending, admin, last, vin>>

\* The sanitized document is submitted again: sanitizeGroupData of its own result
Resanitize ==
    /\ vres.stage = "sanitized"
    /\ ~vres.sanitized.thrown
    /\ vres' = [stage |-> "resanitized", result |-> vres.result, sanitized |-> vres.sanitized,
                again |-> sanitizeGroupData(vres.sanitized.value)]
    /\ UNCHANGED <<db, now, handlers, limiter, sweepPending, admin, last, vin>>

NextV == Validate \/ Sanitize \/ Resanitize

SpecV == InitV /\ [][NextV]_vars

\* POST /api/groups/g1 with the untyped document, any number of times, and GET
NextPost ==
    \/ PostBegin("c1", G1, vin, MaxAttempts)
    \/ PostLimiter("c1")
    \/ PostInsert("c1")
    \/ PostUpdate("c1")
    \/ Get(G1)

\* As many members, with as many items each, as the Validator accepts; every
\* item as short as can be
docCrowded ==
    Doc(Str(Fam), Map([i \in 1..MaxUsers |->
                          Entry(Member(i), User([j \in 1..MaxItems |-> Item(Str(Socks))]))]))

\* A group name and an item description that are one HTML tag each
docTagOnly ==
    Doc(Str(<<"<", "b", ">">>), Map(<<Entry(Ann, User(<<Item(Str(<<"<", "i", ">">>))>>))>>))

InitPost == InitWith(RawDocs \cup {docCrowded, docTagOnly})

SpecPost == InitPost /\ [][NextPost]_vars

-----------------------------------------------------------------------------
(* The claims *)

\* The sanitized form of the document d, as the table returns it
Sanitized(d) == jsonb(sanitizeGroupData(d).value)

\* The items listed under the member named m in the view
ownItems(view, m) ==
    LET es == SelectSeq(view.o.users.m, LAMBDA e : e.k = m)
    IN  IF Len(es) = 0 THEN <<>> ELSE es[1].v.o.items.a

\* The view shows none of the givers' marks on the items of m
marksHidden(view, m) ==
    \A i \in 1..Len(ownItems(view, m)) :
        LET item == ownItems(view, m)[i].o
        IN  /\ item.claimedBy = Arr(<<>>)
            /\ item.purchased = Bool(FALSE)
            /\ item.splitWith = Arr(<<>>)

\* C1: the view a member gets of a stored group shows claimedBy, purchased
\* and splitWith empty on every item listed under that member.  GET takes no
\* member: whoever asks, the answer is the one in "last".
C1_OwnMarksHidden ==
    (last.op = "GET" /\ last.status = 200 /\ last.data # Null)
        => \A m \in MemberNames : marksHidden(last.data, m)

\* C2: right after a POST that answered 200 and whose steps ran back to back,
\* GET on the same id answers 200 with exactly the sanitized form of the
\* document that was posted (so the two are equal under any filter of views).
C2_GetReturnsSanitized ==
    (last.op = "POST" /\ last.status = 200 /\ last.serial)
        => /\ getResponse(last.g).status = 200
           /\ getResponse(last.g).data = Sanitized(last.groupData)

\* C2 witness: such a POST just answered, for a document the Sanitizer changes
C2_Witness ==
    /\ last.op = "POST" /\ last.status = 200 /\ last.serial
    /\ last.groupData = docMarkup
    /\ Sanitized(last.groupData) # docMarkup
    /\ store[last.g].data = Sanitized(docMarkup)

\* The answer of GET for an id that holds no document
NotFound(g) == [op |-> "GET", g |-> g, status |-> 200, success |-> TRUE, data |-> Null]

\* C3: GET on an id without a row answers 200, success, data null (no error
\* status), whether the row never existed or was removed; and right after a
\* DELETE that answered 200, GET on that id gives that answer.
C3_AbsentIsNotFound ==
    /\ \A g \in Keys : ~store[g].present => getResponse(g) = NotFound(g)
    /\ (last.op = "DELETE" /\ last.status = 200) => getResponse(last.g) = NotFound(last.g)

\* C3 witness: a DELETE just answered 200 while another group is stored
C3_Witness ==
    /\ last.op = "DELETE" /\ last.status = 200 /\ last.g = G1
    /\ store[G2].present

\* The answer in "last" after the step is that of a POST on g that stored all
\* of its sanitized document
WroteWhole(g) ==
    /\ last'.op = "POST" /\ last'.status = 200 /\ last'.g = g
    /\ store'[g] = Row(Sanitized(last'.groupData), now)

\* The answer in "last" after the step is that of a delete of g or of a sweep
Removed(g) ==
    \/ last'.op \in {"DELETE", "adminDelete"} /\ last'.status = 200 /\ last'.g = g
    \/ last'.op \in {"cleanupOldGroups", "cleanup"} /\ expired(store[g])

\* The sanitized forms of the documents the clients submit
WholeDocuments == {Sanitized(d) : d \in {x \in ServiceDocs : ~sanitizeGroupData(x).thrown}}

\* C4: every row is absent, or present with a whole sanitized document; a
\* step that changes a row is absent to present or present to present by a
\* POST that answered 200 and stored its whole document, or present to absent
\* by a delete or a sweep.  GET, a rejected POST, the admin reads, login and
\* logout change no row.
C4_OnlyListedTransitions ==
    [][\A g \in Keys :
          /\ store'[g].present => store'[g].data \in WholeDocuments
          /\ store'[g] # store[g]
                => \/ store'[g].present /\ WroteWhole(g)
                   \/ store[g].present /\ ~store'[g].present /\ Removed(g)]_vars

\* C4 witness: an admin read was answered from a stored group by a session
\* that is still open
C4_Witness ==
    /\ last.op = "group" /\ last.status = 200
    /\ store[last.g].present
    /\ DOMAIN adminSessions # {}

\* C5: two POSTs with valid documents for one absent id, below the creation
\* limit, both answer 200: no POST ends in a storage error.
C5_NoStorageError == last.op = "POST" => last.status = 200

\* C6: an UPDATE that finds the row replaces the whole row by the sanitized
\* document of its own request and answers 200, whatever the row held and
\* whoever wrote it: the write applied last is what is stored.
C6_LastWriterWins ==
    [][\A c \in Clients :
          (pc[c] = "update" /\ pc'[c] = "idle" /\ store[req[c].g].present
              /\ last'.op = "POST")
            => /\ last'.status = 200
               /\ store'[req[c].g] = Row(Sanitized(req[c].groupData), now)]_vars

\* C6 witness: two writers found the same stored group; the first one's
\* document is stored, the second one's UPDATE, with another document, is
\* still to come
C6_Witness ==
    /\ last.op = "POST" /\ last.status = 200
    /\ last.message = "Group updated successfully"
    /\ last.groupData = docMarkup
    /\ store[last.g].data = Sanitized(docMarkup)
    /\ \E c \in Clients :
          /\ pc[c] = "update"
          /\ req[c].g = last.g
          /\ req[c].groupData = docClaimed

\* The documents of the clients that the Validator reports errors for
Reported ==
    {d \in ServiceDocs : ~validateGroupData(d).thrown /\ Len(validateGroupData(d).value) > 0}

\* C7: a POST on a well-formed id whose document the Validator reports errors
\* for answers 400 with those errors, at least one, and leaves every row, its
\* document and its timestamp as they were.
C7_RejectedLeavesStore ==
    [][\A g \in Keys, d \in Reported :
          (pc["c1"] = "idle" /\ last'.op \in {"POST", "await"}
              /\ PostBegin("c1", g, d, MaxAttempts))
            => /\ last'.op = "POST" /\ last'.status = 400
               /\ last'.message = "Validation failed"
               /\ Len(last'.errors) > 0
               /\ last'.errors = validateGroupData(d).value
               /\ store' = store]_vars

\* C7 witness: a POST was just rejected with errors for a group that is stored
C7_Witness ==
    /\ last.op = "POST" /\ last.status = 400 /\ last.message = "Validation failed"
    /\ Len(last.errors) > 0
    /\ store[last.g].present

\* C8: validateGroupData returns a list for every input; it never throws.
C8_ValidatorReturns == vres.stage = "validated" => ~vres.result.thrown

\* Some item of the document has a string for claimedBy
bareClaim(doc) ==
    LET users == Prop(doc, "users")
    IN  /\ users.t = "map"
        /\ \E i \in 1..Len(users.m) :
              LET items == Prop(users.m[i].v, "items")
              IN  /\ items.t = "array"
                  /\ \E j \in 1..Len(items.a) :
                        Prop(items.a[j], "claimedBy").t = "string"

\* C9: the Validator reports an error for every document in which an item
\* has a string for claimedBy.
C9_BareClaimRejected ==
    (vres.stage = "validated" /\ bareClaim(vin))
        => (vres.result.thrown \/ Len(vres.result.value) > 0)

\* C10: the Validator reports an error for every document whose users
\* mapping has more than 50 entries.
C10_OverFiftyReported ==
    (vres.stage = "validated" /\ Prop(vin, "users").t = "map"
        /\ Len(Prop(vin, "users").m) > MaxUsers)
        => (~vres.result.thrown /\ Len(vres.result.value) > 0)

\* C11: for every document the Validator accepts, sanitizeGroupData of the
\* sanitized document is the sanitized document.
C11_SanitizeIdempotent ==
    vres.stage = "resanitized"
        => (~vres.again.thrown /\ vres.again.value = vres.sanitized.value)

\* The members of the document, and the items of all of them
membersOf(doc) == {doc.o.users.m[i].v : i \in 1..Len(doc.o.users.m)}
itemsOf(doc) == UNION {{user.o.items.a[j] : j \in 1..Len(user.o.items.a)} : user \in membersOf(doc)}

\* C12: the document the Sanitizer returns has exactly the keys groupName,
\* holiday, eventDate, createdBy, users; each member exactly items; each item
\* exactly description, priority, price, notes, details, claimedBy,
\* purchased, splitWith.  No other key of the input is in it.
C12_AllowList ==
    (vres.stage \in {"sanitized", "resanitized"} /\ ~vres.sanitized.thrown)
        => LET doc == vres.sanitized.value
           IN  /\ DOMAIN doc.o = {"groupName", "holiday", "eventDate", "createdBy", "users"}
               /\ \A user \in membersOf(doc) : DOMAIN user.o = {"items"}
               /\ \A item \in itemsOf(doc) :
                     DOMAIN item.o = {"description", "priority", "price", "notes", "details",
                                     "claimedBy", "purchased", "splitWith"}

\* C12 witness: the Sanitizer returned for the document with keys of its own
\* at every level
C12_Witness ==
    /\ vres.stage = "sanitized"
    /\ vin = docExtraKeys
    /\ ~vres.sanitized.thrown
    /\ itemsOf(vres.sanitized.value) # {}

\* The string has none of the characters < > " ' and at most maxLength characters
cleanText(x, maxLength) ==
    /\ x.t = "string"
    /\ Len(x.s) <= maxLength
    /\ \A i \in 1..Len(x.s) : x.s[i] \notin {"<", ">", "\"", "'"}

\* C13: in every stored document groupName, createdBy, the member names and
\* each item's description, price, notes, details and the names in claimedBy
\* and splitWith have none of the characters < > " ' and are no longer than
\* 100, 100, 100, 500, 20, 1000, 1000, 100.
C13_StoredTextClean ==
    \A g \in Keys :
        store[g].present =>
            LET doc == store[g].data
            IN  /\ cleanText(doc.o.groupName, 100)
                /\ cleanText(doc.o.createdBy, 100)
                /\ \A i \in 1..Len(doc.o.users.m) : cleanText(Str(doc.o.users.m[i].k), 100)
                /\ \A item \in itemsOf(doc) :
                      /\ cleanText(item.o.description, 500)
                      /\ cleanText(item.o.price, 20)
                      /\ cleanText(item.o.notes, 1000)
                      /\ cleanText(item.o.details, 1000)
                      /\ \A j \in 1..Len(item.o.claimedBy.a) :
                            cleanText(item.o.claimedBy.a[j], 100)
                      /\ \A j \in 1..Len(item.o.splitWith.a) :
                            cleanText(item.o.splitWith.a[j], 100)

\* C13 witness: a document was stored whose input had a price or a giver's
\* name past the bound, or markup in a member name
C13_Witness ==
    /\ store[G1].present
    /\ Prop(vin, "users") \in Unbounded
    /\ last.op = "POST" /\ last.status = 200
    /\ store[G1].data.o.users # Prop(vin, "users")

\* C14: for every document the Validator accepts, sanitizeGroupData returns
\* a document and does not throw.
C14_SanitizerReturns ==
    vres.stage \in {"sanitized", "resanitized"} => ~vres.sanitized.thrown

\* C15: DELETE on an id that holds no document answers not found (404), not
\* success, and leaves the table as it was.
C15_AbsentDeleteNotFound ==
    [][\A g \in Keys :
          (~store[g].present /\ last'.op = "DELETE" /\ last'.g = g)
            => (last'.status = 404 /\ store' = store)]_vars

\* The step is a sweep: the startup sweep, or an admin cleanup that ran
Swept ==
    \/ last'.op = "cleanupOldGroups"
    \/ last'.op = "cleanup" /\ last'.status = 200

\* C16: a sweep removes every row whose timestamp is more than the retention
\* age before the current time and leaves every other row, one exactly at
\* the cutoff included, as it was; after it no row is left for a second
\* sweep at the same time to remove.
C16_SweepStrict ==
    [][Swept =>
          \A g \in Keys :
             /\ store'[g] = IF store[g].present
                                 /\ store[g].updated_at + RetentionYears * Year < now
                             THEN NoRow ELSE store[g]
             /\ store'[g].present
                   => store'[g].updated_at + RetentionYears * Year >= now']_vars

\* C16 witness: an admin cleanup just ran and kept a row whose timestamp is
\* exactly the retention age old
C16_Witness ==
    /\ last.op = "cleanup" /\ last.status = 200
    /\ store[G1].present
    /\ store[G1].updated_at + RetentionYears * Year = now

\* C17: while the server keeps running, a group whose last modification is
\* more than the retention age old does not stay: with no administrator
\* acting it is eventually deleted, unless it is written again first.
C17_ExpiredEventuallyDeleted ==
    \A g \in Keys : expired(store[g]) ~> ~expired(store[g])

\* C18: every stored document has a groupName and a users mapping, every
\* member an items array, and every item arrays for claimedBy and splitWith
\* and a boolean for purchased.
C18_StoredShape ==
    \A g \in Keys :
        store[g].present =>
            LET doc == store[g].data
            IN  /\ doc.t = "object"
                /\ {"groupName", "users"} \subseteq DOMAIN doc.o
                /\ doc.o.groupName.t = "string"
                /\ doc.o.users.t = "map"
                /\ \A user \in membersOf(doc) :
                      /\ user.t = "object"
                      /\ "items" \in DOMAIN user.o
                      /\ user.o.items.t = "array"
                /\ \A item \in itemsOf(doc) :
                      /\ item.t = "object"
                      /\ {"claimedBy", "splitWith", "purchased"} \subseteq DOMAIN item.o
                      /\ item.o.claimedBy.t = "array"
                      /\ item.o.splitWith.t = "array"
                      /\ item.o.purchased.t = "boolean"

\* C18 witness: a document is stored whose input had a string for claimedBy
\* and neither splitWith nor purchased
C18_Witness ==
    /\ store[G1].present
    /\ bareClaim(vin)
    /\ itemsOf(store[G1].data) # {}

\* C19: no stored document serializes to more than 500 KB.
C19_StoredSizeCapped ==
    \A g \in Keys : store[g].present => jsonLength(store[g].data) <= SizeCap

\* C20: a GET of a group and an admin's observer read of a group leave the
\* table as it was: the rows present, every document (its users included)
\* and every timestamp.
C20_ReadsChangeNothing ==
    [][(last'.op = "GET" \/ last'.op = "group") => store' = store]_vars

\* C20 witness: a GET just returned the document of a stored group while an
\* admin session is open
C20_Witness ==
    /\ last.op = "GET" /\ last.status = 200
    /\ last.data # Null
    /\ store[last.g].data = last.data
    /\ DOMAIN adminSessions # {}

\* C21: a DELETE of a stored group sent by anyone other than the member named
\* in the document's createdBy leaves the group stored.  DELETE takes no
\* sender: whoever sends it, the step is the same.
C21_CreatorOnlyDelete ==
    [][\A g \in Keys, m \in MemberNames :
          (last'.op = "DELETE" /\ last'.g = g /\ store[g].present
              /\ store[g].data.o.createdBy # Str(m))
            => store'[g] = store[g]]_vars

\* C22: a request with the token of an open session is let through by
\* requireAdmin as long as less than two hours have passed since the login or
\* the latest request let through with that token: right after such a
\* request is answered at some time, the session it leaves is one that the
\* test of requireAdmin passes at every time less than two hours later.
C22_ExpiresAfterInactivity ==
    [][(last'.op \in {"stats", "groups", "group", "adminDelete", "contacts",
                      "contactUpdate", "cleanup"}
           /\ last'.status # 401)
         => \A d \in 0..(SessionLife * Hour - 1) :
               /\ last'.auth.token \in DOMAIN adminSessions'
               /\ ~(now + d > adminSessions'[last'.auth.token].expiresAt)]_vars

\* C23: validateGroupData leaves the document it is given as it was, whether
\* it returns no error, returns errors, or throws.
C23_ValidatorKeepsInput ==
    [][(vres.stage = "input" /\ vres'.stage = "validated") => vin' = vin]_vars

\* C23 witness: the Validator reported errors for a document without users
C23_Witness ==
    /\ vres.stage = "validated"
    /\ ~vres.result.thrown
    /\ Len(vres.result.value) > 0
    /\ ~Truthy(Prop(vin, "users"))

\* C24: a POST that answers 200 has stored its document: the statement it
\* answers for left the row of its id holding the request's sanitized
\* document with the current time as timestamp, whatever deletes or sweeps
\* ran between the handler's steps.  In particular "Group updated
\* successfully" is not the answer to an UPDATE that changed no row.
C24_OkMeansStored ==
    [][\A c \in Clients :
          (pc[c] \in {"insert", "update"} /\ pc'[c] = "idle"
              /\ last'.op = "POST" /\ last'.status = 200)
            => store'[req[c].g] = Row(jsonb(req[c].sanitizedData), now)]_vars

\* C25: a sweep that runs between the steps of POST and GET requests removes
\* no row whose last successful write is within the retention age: the rows
\* it removes have a timestamp older than that, every POST answered 200 that
\* leaves a row for its id leaves it with the current time as timestamp, and
\* no step moves the timestamp of a row back.
C25_SweepKeepsFresh ==
    [][\A g \in Keys :
          /\ (Swept /\ store[g].present /\ ~store'[g].present)
                => store[g].updated_at + RetentionYears * Year < now
          /\ (last'.op = "POST" /\ last'.status = 200 /\ last'.g = g /\ store'[g].present)
                => store'[g].updated_at = now
          /\ (store[g].present /\ store'[g].present)
                => store'[g].updated_at >= store[g].updated_at]_vars

\* C25 witness: the sweep just ran while a POST on a stored group was between
\* its SELECT and its UPDATE; it removed another group and kept this one
C25_Witness ==
    /\ last.op = "cleanupOldGroups" /\ last.rowCount > 0
    /\ pc["c1"] = "update"
    /\ store[req["c1"].g].present

\* C26: every stored document has at most 50 members, every member at most
\* 100 items, and every item at most 10 names in claimedBy and at most 10 in
\* splitWith.
C26_StoredSizeBounded ==
    \A g \in Keys :
        store[g].present =>
            LET doc == store[g].data
            IN  /\ Len(doc.o.users.m) <= 50
                /\ \A user \in membersOf(doc) : Len(user.o.items.a) <= 100
                /\ \A item \in itemsOf(doc) :
                      /\ Len(item.o.claimedBy.a) <= 10
                      /\ Len(item.o.splitWith.a) <= 10

\* C26 witness: a document is stored whose input named more than 10 members
\* in claimedBy and in splitWith of an item
C26_Witness ==
    /\ store[G1].present
    /\ last.op = "POST" /\ last.status = 200
    /\ Prop(vin, "users").t = "map"
    /\ \E i \in 1..Len(Prop(vin, "users").m) :
          LET items == Prop(Prop(vin, "users").m[i].v, "items")
          IN  /\ items.t = "array"
              /\ \E j \in 1..Len(items.a) :
                    /\ Prop(items.a[j], "claimedBy").t = "array"
                    /\ Len(Prop(items.a[j], "claimedBy").a) > 10
                    /\ Prop(items.a[j], "splitWith").t = "array"
                    /\ Len(Prop(items.a[j], "splitWith").a) > 10

\* C27: every stored document passes validateGroupData again: posted back as
\* GET returns it, it is not rejected with validation errors.
C27_StoredRevalidates ==
    \A g \in Keys :
        store[g].present => validateGroupData(store[g].data) = Returned(<<>>)

\* C28: for every document the Validator accepts, the users mapping the
\* Sanitizer returns has as many entries as the submitted one, and holds each
\* submitted member's sanitized item list under that member's sanitized
\* name: no two submitted names end up in one entry.
C28_NoMemberLost ==
    (vres.stage = "sanitized" /\ ~vres.sanitized.thrown /\ Prop(vin, "users").t = "map")
        => LET given == Prop(vin, "users").m
               kept == vres.sanitized.value.o.users.m
           IN  /\ Len(kept) = Len(given)
               /\ \A i \in 1..Len(given) :
                     \E j \in 1..Len(kept) :
                        /\ kept[j].k = sanitizeString(Str(given[i].k), 100).s
                        /\ kept[j].v = sanitizeUser(given[i].v)

\* The admin operations behind requireAdmin
AdminOps ==
    {"logout", "stats", "groups", "group", "adminDelete", "contacts", "contactUpdate", "cleanup"}

\* The header carries the token of a session that a login opened and that
\* has not expired
authorized(auth) ==
    /\ auth.scheme = "Bearer"
    /\ auth.token \in DOMAIN adminSessions
    /\ now <= adminSessions[auth.token].expiresAt

\* C29: an admin operation other than login is answered 401 when its request
\* carries no token, an unknown one or an expired one, and then leaves the
\* groups, the contact submissions and every other session as they were; it
\* is answered otherwise only for the token of a session that is open and
\* not expired.  A session is opened only by a login that is answered 200,
\* with ADMIN_PASSWORD set and the password equal to it, for a token never
\* issued before; a login with another password opens none.
C29_AdminOnlyWithSession ==
    [][/\ last'.op \in AdminOps =>
             /\ last'.status # 401 <=> authorized(last'.auth)
             /\ last'.status = 401 =>
                   /\ store' = store
                   /\ contacts' = contacts
                   /\ DOMAIN adminSessions' \subseteq DOMAIN adminSessions
                   /\ \A t \in DOMAIN adminSessions :
                         (last'.auth.scheme = "Bearer" => t # last'.auth.token)
                            => (t \in DOMAIN adminSessions' /\ adminSessions'[t] = adminSessions[t])
       /\ DOMAIN adminSessions' \ DOMAIN adminSessions # {} =>
             /\ last'.op = "login" /\ last'.status = 200
             /\ adminPassword # Unset
             /\ DOMAIN adminSessions' \ DOMAIN adminSessions = {last'.token}
             /\ last'.token > nextToken
       /\ \A password \in Passwords :
             (last'.op = "login" /\ password # adminPassword
                 /\ AdminLogin(password, MaxTokens + 1))
               => (last'.status # 200 /\ adminSessions' = adminSessions)]_vars

\* C29 witness: an admin delete with a token that was issued and is no longer
\* good was just answered 401, while the group is stored and another session
\* is open
C29_Witness ==
    /\ last.op = "adminDelete" /\ last.status = 401
    /\ last.auth = Bearer(1)
    /\ nextToken >= 2
    /\ 2 \in DOMAIN adminSessions
    /\ now > SessionLife * Hour
    /\ store[G1].present

\* The tokens that were issued and whose session is gone
closed == (1..nextToken) \ DOMAIN adminSessions

\* C30: a logout answered 200 removes the session of its token and leaves
\* the other sessions as they were; a request answered 401 for a token
\* leaves no session for it; a token whose session is gone, by logout or by
\* rejection, is let through by requireAdmin no more and never gets a
\* session again.
C30_LogoutFinal ==
    [][/\ (last'.op = "logout" /\ last'.status = 200) =>
             /\ last'.auth.token \in DOMAIN adminSessions
             /\ last'.auth.token \in closed'
             /\ \A t \in DOMAIN adminSessions \ {last'.auth.token} :
                   t \in DOMAIN adminSessions' /\ adminSessions'[t] = adminSessions[t]
       /\ (last'.op \in AdminOps /\ last'.status = 401 /\ last'.auth.scheme = "Bearer"
              /\ last'.auth.token <= nextToken)
             => last'.auth.token \in closed'
       /\ \A t \in closed :
             /\ ~requireAdmin("stats", Bearer(t)).next
             /\ t \in closed']_vars

\* C30 witness: a logout with the first token was just answered 200 while
\* the session of the second one is open
C30_Witness ==
    /\ last.op = "logout" /\ last.status = 200
    /\ last.auth = Bearer(1)
    /\ 1 \in closed
    /\ 2 \in DOMAIN adminSessions

====
